---- MODULE Spec2Model ----
(***************************************************************************)
(* A model of trackio-mcp: the monkey patch of gradio's Blocks.launch, the *)
(* import hook that applies it lazily (monkey_patch.py), and the query     *)
(* functions registered as MCP tools (tools.py).                           *)
(*                                                                         *)
(* Every Python thread is a stack of frames.  A frame is a record          *)
(* [fn, pc, name, loc]: the function it runs, the statement it is at, the  *)
(* module name it was asked to load (the import hook) and one local        *)
(* (the closure variable original_blocks_launch).  A call pushes a frame   *)
(* after moving the caller's pc to the statement that follows the call, a  *)
(* return pops it; an exception in flight is exc[t], and it unwinds the    *)
(* stack one frame per step until a frame whose try block catches it.      *)
(* The bottom frame of a stack is the requester: the code that called      *)
(* into the package.                                                       *)
(***************************************************************************)
EXTENDS Naturals, Integers, Sequences, FiniteSets, TLC

VARIABLES
    env_TRACKIO_ENABLE_MCP,   \* os.environ["TRACKIO_ENABLE_MCP"], or Unset
    env_TRACKIO_MCP_ENABLED,  \* os.environ["TRACKIO_MCP_ENABLED"], or Unset
    builtins_import,          \* __builtins__['__import__']: "real", "hook", "None"
    _original_import,         \* monkey_patch._original_import: "None", "real", "hook"
    _gradio_patched,          \* monkey_patch._gradio_patched
    _patch_lock,              \* holder of monkey_patch._patch_lock, or NoThread
    Blocks_launch,            \* gr.Blocks.launch: 0 the genuine launch, k > 0 a wrapper
                              \* whose closure holds launch k - 1
    Blocks_original_launch,   \* gr.Blocks._original_launch: NoAttr or a launch
    demo_mcp_patched,         \* trackio.ui.demo._mcp_patched
    installed,                \* the distributions the real import can find
    sys_modules,              \* the names in sys.modules
    stack,                    \* per thread: its frames, bottom first
    exc,                      \* per thread: the exception in flight, or NoExc
    kwargs,                   \* per thread: the kwargs dict of the launch call
    local_url,                \* per thread: self.local_url of its Blocks instance
    hist,                     \* per thread: what the current request did so far
    observe,                  \* whether a request records the patch state it began in
    launch_writes,            \* how often Blocks.launch was assigned
    original_writes,          \* how often Blocks._original_launch was assigned
    query,                    \* the last query call: its input and its result
    cli                       \* the last run of the command line: its input and its result

vars == <<env_TRACKIO_ENABLE_MCP, env_TRACKIO_MCP_ENABLED, builtins_import,
          _original_import, _gradio_patched, _patch_lock, Blocks_launch,
          Blocks_original_launch, demo_mcp_patched, installed, sys_modules,
          stack, exc, kwargs, local_url, hist, observe, launch_writes,
          original_writes, query, cli>>

patch_vars == <<builtins_import, _original_import, _gradio_patched, _patch_lock,
                Blocks_launch, Blocks_original_launch, demo_mcp_patched,
                launch_writes, original_writes>>

(***************************************************************************)
(* Bounds.                                                                 *)
(***************************************************************************)
\* sys.getrecursionlimit(), scaled down: the frames one thread may stack.
RecursionLimit == 4

Threads == {"t1", "t2"}
NoThread == "nobody"
Unset == "<unset>"
NoExc == "none"
NoAttr == -1

(***************************************************************************)
(* Strings.  A Python string is modelled by its characters, so that        *)
(* lower(), ==, startswith() and rstrip() are computed, not assumed.       *)
(***************************************************************************)
Chars(s) ==
    CASE s = "true"          -> <<"t", "r", "u", "e">>
      [] s = "TRUE"          -> <<"T", "R", "U", "E">>
      [] s = "Yes"           -> <<"Y", "e", "s">>
      [] s = "yes"           -> <<"y", "e", "s">>
      [] s = "1"             -> <<"1">>
      [] s = "0"             -> <<"0">>
      [] s = "false"         -> <<"f", "a", "l", "s", "e">>
      [] s = "on"            -> <<"o", "n">>
      [] s = ""              -> <<>>
      [] s = "gradio"        -> <<"g", "r", "a", "d", "i", "o">>
      [] s = "gradio."       -> <<"g", "r", "a", "d", "i", "o", ".">>
      [] s = "gradio.blocks" -> <<"g", "r", "a", "d", "i", "o", ".",
                                  "b", "l", "o", "c", "k", "s">>
      [] s = "trackio"       -> <<"t", "r", "a", "c", "k", "i", "o">>
      [] s = "trackio.ui"    -> <<"t", "r", "a", "c", "k", "i", "o", ".", "u", "i">>
      [] s = "json"          -> <<"j", "s", "o", "n">>
      [] s = "run-1"         -> <<"r", "u", "n", "-", "1">>
      [] s = "Run-2"         -> <<"R", "u", "n", "-", "2">>
      [] s = "RUN"           -> <<"R", "U", "N">>
      [] s = "2"             -> <<"2">>
      [] s = "p1"            -> <<"p", "1">>

\* str.lower() on one character.
LowerChar(c) ==
    CASE c = "T" -> "t"
      [] c = "R" -> "r"
      [] c = "U" -> "u"
      [] c = "E" -> "e"
      [] c = "Y" -> "y"
      [] c = "N" -> "n"
      [] OTHER   -> c

\* str.lower()
Lower(cs) == [i \in DOMAIN cs |-> LowerChar(cs[i])]

\* str.startswith(prefix)
StartsWith(cs, prefix) ==
    /\ Len(prefix) <= Len(cs)
    /\ SubSeq(cs, 1, Len(prefix)) = prefix

\* the Python test `sub in s` on strings
Contains(cs, sub) ==
    \E i \in 1..(Len(cs) + 1) :
        /\ i + Len(sub) - 1 <= Len(cs)
        /\ SubSeq(cs, i, i + Len(sub) - 1) = sub

(***************************************************************************)
(* monkey_patch.patch_trackio, line 21: the enable switch.                 *)
(***************************************************************************)
\* A plausible slip: a deny list instead of the allow list.
EnableMcpDenyList(value) ==
    LET v == IF value = Unset THEN Chars("true") ELSE Chars(value)
    IN  Lower(v) \notin {Chars("false"), Chars("0"), Chars("")}

\* os.getenv("TRACKIO_ENABLE_MCP", "true").lower() in ("true", "1", "yes")
enable_mcp(value) ==
    LET v == IF value = Unset THEN Chars("true") ELSE Chars(value)
    IN  Lower(v) \in {Chars("true"), Chars("1"), Chars("yes")}

(***************************************************************************)
(* The import system the package runs in.                                  *)
(***************************************************************************)
ModuleNames == {"gradio", "gradio.blocks", "trackio", "trackio.ui", "json"}

\* The package a dotted name belongs to.
Root(name) ==
    IF StartsWith(Chars(name), Chars("gradio")) THEN "gradio"
    ELSE IF StartsWith(Chars(name), Chars("trackio")) THEN "trackio"
    ELSE name

\* The real __import__ finds a module when it is cached or its distribution
\* is installed; the standard library is always there.
Importable(name) ==
    \/ name \in sys_modules
    \/ Root(name) \in installed
    \/ Root(name) = "json"

\* What the real __import__ leaves in sys.modules: the module and its package.
Loaded(name) == sys_modules \cup {name, Root(name)}

\* A plausible slip: every name that begins with gradio or trackio triggers.
IsGradioNameLoose(name) ==
    \/ StartsWith(Chars(name), Chars("gradio"))
    \/ StartsWith(Chars(name), Chars("trackio"))

\* monkey_patch.py line 54: the hook's test for the gradio patch.
IsGradioName(name) ==
    \/ Chars(name) = Chars("gradio")
    \/ (StartsWith(Chars(name), Chars("gradio.")) /\ "gradio" \in sys_modules)

\* monkey_patch.py line 62: the hook's test for the trackio UI patch.
IsTrackioName(name) ==
    /\ StartsWith(Chars(name), Chars("trackio"))
    /\ "trackio.ui" \in sys_modules

(***************************************************************************)
(* Frames, calls, returns and exceptions.                                  *)
(***************************************************************************)
Frame(fn, pc, name, loc) == [fn |-> fn, pc |-> pc, name |-> name, loc |-> loc]

Top(t) == stack[t][Len(stack[t])]

\* The stack of t with its top frame at statement pc.
At(t, pc) == [stack[t] EXCEPT ![Len(stack[t])].pc = pc]

\* The stack of t without its top frame.
Popped(t) == SubSeq(stack[t], 1, Len(stack[t]) - 1)

Running(t, fn, pc) ==
    /\ stack[t] # <<>>
    /\ exc[t] = NoExc
    /\ Top(t).fn = fn
    /\ Top(t).pc = pc

Idle(t) == stack[t] = <<>>

Goto(t, pc) ==
    /\ stack' = [stack EXCEPT ![t] = At(t, pc)]
    /\ UNCHANGED exc

Return(t) ==
    /\ stack' = [stack EXCEPT ![t] = Popped(t)]
    /\ UNCHANGED exc

\* raise e in the top frame, which stays on the stack until Unwind looks at it.
Raise(t, e) ==
    /\ exc' = [exc EXCEPT ![t] = e]
    /\ UNCHANGED stack

\* Calling a Python function with the stack st (the caller already at its
\* continuation): the interpreter raises RecursionError in the caller when the
\* stack is full.
Call(t, st, frame) ==
    IF Len(st) >= RecursionLimit
    THEN /\ stack' = [stack EXCEPT ![t] = st]
         /\ exc' = [exc EXCEPT ![t] = "RecursionError"]
    ELSE /\ stack' = [stack EXCEPT ![t] = Append(st, frame)]
         /\ UNCHANGED exc

\* The statement `import <name>` (or a requester's __import__(name)) with the
\* stack st: it calls whatever __builtins__['__import__'] holds now.
ImportStatement(t, st, name) ==
    CASE builtins_import = "real" ->
            IF Importable(name)
            THEN /\ sys_modules' = Loaded(name)
                 /\ stack' = [stack EXCEPT ![t] = st]
                 /\ UNCHANGED exc
            ELSE /\ stack' = [stack EXCEPT ![t] = st]
                 /\ exc' = [exc EXCEPT ![t] = "ImportError"]
                 /\ UNCHANGED sys_modules
      [] builtins_import = "hook" ->
            /\ Call(t, st, Frame("patched_import", "call_original", name, 0))
            /\ UNCHANGED sys_modules
      [] OTHER ->   \* None is not callable
            /\ stack' = [stack EXCEPT ![t] = st]
            /\ exc' = [exc EXCEPT ![t] = "TypeError"]
            /\ UNCHANGED sys_modules

(***************************************************************************)
(* The arguments of a launch call, and the Blocks instance it is made on.  *)
(***************************************************************************)
Absent == "<absent>"
Keys == {"mcp_server", "show_api", "quiet"}
Values == {"True", "False", "None"}

\* self.local_url after the genuine launch: no such attribute, None, or a URL
\* with or without a trailing slash.
LocalUrls ==
    {[has |-> FALSE, value |-> <<>>],
     [has |-> TRUE, value |-> <<>>],
     [has |-> TRUE, value |-> <<"http://127.0.0.1:7860">>],
     [has |-> TRUE, value |-> <<"http://127.0.0.1:7860", "/">>]}

NoUrl == [has |-> FALSE, value |-> <<>>]

NoCall == [args |-> <<>>, kwargs |-> [k \in Keys |-> Absent]]

(***************************************************************************)
(* What a request remembers, for the properties: the patch state when it   *)
(* began, and what happened since.                                         *)
(***************************************************************************)
Snapshot == [builtins_import        |-> builtins_import,
             _original_import       |-> _original_import,
             _gradio_patched        |-> _gradio_patched,
             Blocks_launch          |-> Blocks_launch,
             Blocks_original_launch |-> Blocks_original_launch,
             TRACKIO_MCP_ENABLED    |-> env_TRACKIO_MCP_ENABLED,
             demo_mcp_patched       |-> demo_mcp_patched]

\* The history of a request that begins now.
NewHist(op, name, caller) ==
    [op        |-> op,          \* the function the requester calls
     name      |-> name,        \* the module name of a load request
     before    |-> IF observe THEN Snapshot ELSE <<>>,   \* the patch state then
     enabled   |-> enable_mcp(env_TRACKIO_ENABLE_MCP),
     ready     |-> Importable("gradio"),
     original  |-> "none",      \* the outermost hook frame's original primitive, or
                                \* the genuine launch: "none" (not called), "ok",
                                \* or what it raised
     attempted |-> FALSE,       \* the hook called _patch_gradio_launch
     tried     |-> {},          \* the names for which a hook frame entered the try
                                \* statement of the gradio patch (line 55)
     entry     |-> "none",      \* what patch_trackio gave the package entry point:
                                \* "none" (not called), "called", or what it raised
     caller    |-> caller,      \* launch: the arguments the caller passed
     calls     |-> <<>>,        \* launch: the calls that reached the genuine launch
     marker    |-> <<>>,        \* launch: TRACKIO_MCP_ENABLED at each of those calls
     printed   |-> <<>>]        \* launch: the lines printed

\* No request is running.
NoRequest ==
    [op |-> "none", name |-> "", before |-> <<>>, enabled |-> FALSE, ready |-> FALSE,
     original |-> "none", attempted |-> FALSE, tried |-> {}, entry |-> "none", caller |-> NoCall, calls |-> <<>>,
     marker |-> <<>>, printed |-> <<>>]

Requester(op) == Frame("requester", op, "", 0)

\* The requester calls the Python function fn.
Begin(t, op, name, frame) ==
    /\ Idle(t)
    /\ Call(t, <<Requester(op)>>, frame)
    /\ hist' = [hist EXCEPT ![t] = NewHist(op, name, NoCall)]

(***************************************************************************)
(* monkey_patch._patch_gradio_launch, lines 74-113.                        *)
(***************************************************************************)
\* A plausible slip: the lock is not taken.
NoLock(t) == TRUE

\* with _patch_lock: the lock can be taken when nobody holds it.
LockFree(t) == _patch_lock = NoThread

\* A plausible slip: only the module flag is tested.
AlreadyPatchedFlagOnly == _gradio_patched

\* line 79: _gradio_patched or hasattr(gr_module.Blocks, '_original_launch')
AlreadyPatched == _gradio_patched \/ Blocks_original_launch # NoAttr

call_patch_gradio_launch(t) ==
    /\ "gradio" \in sys_modules
    /\ Begin(t, "_patch_gradio_launch", "", Frame("_patch_gradio_launch", "lock", "", 0))
    /\ UNCHANGED <<env_TRACKIO_ENABLE_MCP, env_TRACKIO_MCP_ENABLED, patch_vars,
                   installed, sys_modules, kwargs, local_url, observe, query, cli>>

pgl_lock(t) ==
    /\ Running(t, "_patch_gradio_launch", "lock")
    /\ LockFree(t)
    /\ _patch_lock' = t
    /\ Goto(t, "check")
    /\ UNCHANGED <<env_TRACKIO_ENABLE_MCP, env_TRACKIO_MCP_ENABLED, builtins_import,
                   _original_import, _gradio_patched, Blocks_launch,
                   Blocks_original_launch, demo_mcp_patched, launch_writes,
                   original_writes, installed, sys_modules, kwargs, local_url,
                   hist, observe, query, cli>>

pgl_check(t) ==
    /\ Running(t, "_patch_gradio_launch", "check")
    /\ IF AlreadyPatched
       THEN /\ _patch_lock' = NoThread
            /\ Return(t)
       ELSE /\ UNCHANGED _patch_lock
            /\ Goto(t, "read")
    /\ UNCHANGED <<env_TRACKIO_ENABLE_MCP, env_TRACKIO_MCP_ENABLED, builtins_import,
                   _original_import, _gradio_patched, Blocks_launch,
                   Blocks_original_launch, demo_mcp_patched, launch_writes,
                   original_writes, installed, sys_modules, kwargs, local_url,
                   hist, observe, query, cli>>

\* line 82: original_blocks_launch = gr_module.Blocks.launch
pgl_read(t) ==
    /\ Running(t, "_patch_gradio_launch", "read")
    /\ stack' = [stack EXCEPT ![t] =
                    [stack[t] EXCEPT ![Len(stack[t])].pc = "save",
                                     ![Len(stack[t])].loc = Blocks_launch]]
    /\ UNCHANGED <<env_TRACKIO_ENABLE_MCP, env_TRACKIO_MCP_ENABLED, patch_vars,
                   installed, sys_modules, exc, kwargs, local_url, hist, observe, query, cli>>

\* line 110: gr_module.Blocks._original_launch = original_blocks_launch
pgl_save(t) ==
    /\ Running(t, "_patch_gradio_launch", "save")
    /\ Blocks_original_launch' = Top(t).loc
    /\ original_writes' = original_writes + 1
    /\ Goto(t, "replace")
    /\ UNCHANGED <<env_TRACKIO_ENABLE_MCP, env_TRACKIO_MCP_ENABLED, builtins_import,
                   _original_import, _gradio_patched, _patch_lock, Blocks_launch,
                   demo_mcp_patched, launch_writes, installed, sys_modules, kwargs,
                   local_url, hist, observe, query, cli>>

\* line 111: gr_module.Blocks.launch = patched_blocks_launch, the wrapper whose
\* closure holds original_blocks_launch.
pgl_replace(t) ==
    /\ Running(t, "_patch_gradio_launch", "replace")
    /\ Blocks_launch' = Top(t).loc + 1
    /\ launch_writes' = launch_writes + 1
    /\ Goto(t, "flag")
    /\ UNCHANGED <<env_TRACKIO_ENABLE_MCP, env_TRACKIO_MCP_ENABLED, builtins_import,
                   _original_import, _gradio_patched, _patch_lock,
                   Blocks_original_launch, demo_mcp_patched, original_writes,
                   installed, sys_modules, kwargs, local_url, hist, observe, query, cli>>

\* lines 112-113: _gradio_patched = True, and the with block ends.
pgl_flag(t) ==
    /\ Running(t, "_patch_gradio_launch", "flag")
    /\ _gradio_patched' = TRUE
    /\ _patch_lock' = NoThread
    /\ Return(t)
    /\ UNCHANGED <<env_TRACKIO_ENABLE_MCP, env_TRACKIO_MCP_ENABLED, builtins_import,
                   _original_import, Blocks_launch, Blocks_original_launch,
                   demo_mcp_patched, launch_writes, original_writes, installed,
                   sys_modules, kwargs, local_url, hist, observe, query, cli>>

_patch_gradio_launch(t) ==
    \/ pgl_lock(t)
    \/ pgl_check(t)
    \/ pgl_read(t)
    \/ pgl_save(t)
    \/ pgl_replace(t)
    \/ pgl_flag(t)

\* What the hook machinery never touches.
launch_side == <<env_TRACKIO_ENABLE_MCP, env_TRACKIO_MCP_ENABLED, kwargs, local_url,
                 query, cli, installed>>

blocks_vars == <<_patch_lock, Blocks_launch, Blocks_original_launch, launch_writes,
                 original_writes>>

(***************************************************************************)
(* monkey_patch._install_import_hook, lines 36-71.                         *)
(***************************************************************************)
\* A plausible slip: the sentinel is not consulted.
HookInstalledNever == FALSE

\* line 40: _original_import is not None
HookInstalled == _original_import # "None"

call_install_import_hook(t) ==
    /\ Begin(t, "_install_import_hook", "", Frame("_install_import_hook", "check", "", 0))
    /\ UNCHANGED <<launch_side, patch_vars, sys_modules, observe>>

iih_check(t) ==
    /\ Running(t, "_install_import_hook", "check")
    /\ IF HookInstalled THEN Return(t) ELSE Goto(t, "save")
    /\ UNCHANGED <<launch_side, patch_vars, sys_modules, hist, observe>>

\* lines 44-47: _original_import = __builtins__['__import__']
iih_save(t) ==
    /\ Running(t, "_install_import_hook", "save")
    /\ _original_import' = builtins_import
    /\ Goto(t, "set")
    /\ UNCHANGED <<launch_side, builtins_import, _gradio_patched, blocks_vars,
                   demo_mcp_patched, sys_modules, hist, observe>>

\* lines 68-71: __builtins__['__import__'] = patched_import
iih_set(t) ==
    /\ Running(t, "_install_import_hook", "set")
    /\ builtins_import' = "hook"
    /\ Return(t)
    /\ UNCHANGED <<launch_side, _original_import, _gradio_patched, blocks_vars,
                   demo_mcp_patched, sys_modules, hist, observe>>

_install_import_hook(t) ==
    \/ iih_check(t)
    \/ iih_save(t)
    \/ iih_set(t)

(***************************************************************************)
(* monkey_patch.restore_imports, lines 140-151.                            *)
(***************************************************************************)
call_restore_imports(t) ==
    /\ Begin(t, "restore_imports", "", Frame("restore_imports", "check", "", 0))
    /\ UNCHANGED <<launch_side, patch_vars, sys_modules, observe>>

ri_check(t) ==
    /\ Running(t, "restore_imports", "check")
    /\ IF _original_import # "None" THEN Goto(t, "restore") ELSE Return(t)
    /\ UNCHANGED <<launch_side, patch_vars, sys_modules, hist, observe>>

\* lines 146-149: __builtins__['__import__'] = _original_import
ri_restore(t) ==
    /\ Running(t, "restore_imports", "restore")
    /\ builtins_import' = _original_import
    /\ Goto(t, "clear")
    /\ UNCHANGED <<launch_side, _original_import, _gradio_patched, blocks_vars,
                   demo_mcp_patched, sys_modules, hist, observe>>

\* line 150: _original_import = None
ri_clear(t) ==
    /\ Running(t, "restore_imports", "clear")
    /\ _original_import' = "None"
    /\ Goto(t, "flag")
    /\ UNCHANGED <<launch_side, builtins_import, _gradio_patched, blocks_vars,
                   demo_mcp_patched, sys_modules, hist, observe>>

\* line 151: _gradio_patched = False
ri_flag(t) ==
    /\ Running(t, "restore_imports", "flag")
    /\ _gradio_patched' = FALSE
    /\ Return(t)
    /\ UNCHANGED <<launch_side, builtins_import, _original_import, blocks_vars,
                   demo_mcp_patched, sys_modules, hist, observe>>

restore_imports(t) ==
    \/ ri_check(t)
    \/ ri_restore(t)
    \/ ri_clear(t)
    \/ ri_flag(t)

(***************************************************************************)
(* monkey_patch.patched_import, lines 49-65: the hook.                     *)
(***************************************************************************)
\* The hook frame a requester called directly: the others are the hook's own
\* nested loads.
Outermost(t) == Len(stack[t]) = 2

\* A load request of the requester: __import__(name).
request_import(t, name) ==
    /\ Idle(t)
    /\ ImportStatement(t, <<Requester("import")>>, name)
    /\ hist' = [hist EXCEPT ![t] =
                   [NewHist("import", name, NoCall) EXCEPT
                       !.original = IF builtins_import = "real"
                                    THEN IF Importable(name) THEN "ok" ELSE "ImportError"
                                    ELSE "none"]]
    /\ UNCHANGED <<launch_side, patch_vars, observe>>

\* line 51: result = _original_import(name, *args, **kwargs); the global is
\* read when the call is made.
pi_call_original(t) ==
    /\ Running(t, "patched_import", "call_original")
    /\ CASE _original_import = "real" ->
               /\ stack' = [stack EXCEPT ![t] = At(t, "after_original")]
               /\ IF Importable(Top(t).name)
                  THEN /\ sys_modules' = Loaded(Top(t).name)
                       /\ UNCHANGED exc
                  ELSE /\ exc' = [exc EXCEPT ![t] = "ImportError"]
                       /\ UNCHANGED sys_modules
         [] _original_import = "hook" ->
               /\ Call(t, At(t, "after_original"),
                       Frame("patched_import", "call_original", Top(t).name, 0))
               /\ UNCHANGED sys_modules
         [] OTHER ->
               /\ stack' = [stack EXCEPT ![t] = At(t, "after_original")]
               /\ exc' = [exc EXCEPT ![t] = "TypeError"]
               /\ UNCHANGED sys_modules
    /\ UNCHANGED <<launch_side, patch_vars, hist, observe>>

\* The original primitive returned the module.
pi_after_original(t) ==
    /\ Running(t, "patched_import", "after_original")
    /\ Goto(t, "check_gradio")
    /\ hist' = [hist EXCEPT ![t].original =
                   IF Outermost(t) THEN "ok" ELSE hist[t].original]
    /\ UNCHANGED <<launch_side, patch_vars, sys_modules, observe>>

\* lines 54-56: the name test, then `import gradio as gr` inside the try.
pi_check_gradio(t) ==
    /\ Running(t, "patched_import", "check_gradio")
    /\ IF IsGradioName(Top(t).name)
       THEN /\ ImportStatement(t, At(t, "imported_gr"), "gradio")
            /\ hist' = [hist EXCEPT ![t].tried = @ \cup {Top(t).name}]
       ELSE /\ Goto(t, "check_trackio")
            /\ UNCHANGED <<sys_modules, hist>>
    /\ UNCHANGED <<launch_side, patch_vars, observe>>

\* line 57: _patch_gradio_launch(gr)
pi_patch_gradio(t) ==
    /\ Running(t, "patched_import", "imported_gr")
    /\ Call(t, At(t, "patched_gr"), Frame("_patch_gradio_launch", "lock", "", 0))
    /\ hist' = [hist EXCEPT ![t].attempted = TRUE]
    /\ UNCHANGED <<launch_side, patch_vars, sys_modules, observe>>

pi_patched_gradio(t) ==
    /\ Running(t, "patched_import", "patched_gr")
    /\ Goto(t, "check_trackio")
    /\ UNCHANGED <<launch_side, patch_vars, sys_modules, hist, observe>>

\* lines 62-65: the trackio test, _patch_trackio_ui(), return result
pi_check_trackio(t) ==
    /\ Running(t, "patched_import", "check_trackio")
    /\ IF IsTrackioName(Top(t).name)
       THEN Call(t, At(t, "return"), Frame("_patch_trackio_ui", "import", "", 0))
       ELSE Return(t)
    /\ UNCHANGED <<launch_side, patch_vars, sys_modules, hist, observe>>

pi_return(t) ==
    /\ Running(t, "patched_import", "return")
    /\ Return(t)
    /\ UNCHANGED <<launch_side, patch_vars, sys_modules, hist, observe>>

patched_import(t) ==
    \/ pi_call_original(t)
    \/ pi_after_original(t)
    \/ pi_check_gradio(t)
    \/ pi_patch_gradio(t)
    \/ pi_patched_gradio(t)
    \/ pi_check_trackio(t)
    \/ pi_return(t)

(***************************************************************************)
(* monkey_patch._patch_trackio_ui, lines 116-137.                          *)
(***************************************************************************)
\* line 119: import trackio.ui
ptu_import(t) ==
    /\ Running(t, "_patch_trackio_ui", "import")
    /\ ImportStatement(t, At(t, "patch_demo"), "trackio.ui")
    /\ UNCHANGED <<launch_side, patch_vars, hist, observe>>

\* lines 122-134: demo.launch is wrapped once, demo._mcp_patched = True
ptu_patch_demo(t) ==
    /\ Running(t, "_patch_trackio_ui", "patch_demo")
    /\ demo_mcp_patched' = TRUE
    /\ Return(t)
    /\ UNCHANGED <<launch_side, builtins_import, _original_import, _gradio_patched,
                   blocks_vars, sys_modules, hist, observe>>

_patch_trackio_ui(t) ==
    \/ ptu_import(t)
    \/ ptu_patch_demo(t)

(***************************************************************************)
(* monkey_patch.patch_trackio, lines 17-33.                                *)
(***************************************************************************)
call_patch_trackio(t) ==
    /\ Begin(t, "patch_trackio", "", Frame("patch_trackio", "getenv", "", 0))
    /\ UNCHANGED <<launch_side, patch_vars, sys_modules, observe>>

\* lines 21-26: the switch, then _install_import_hook()
pt_getenv(t) ==
    /\ Running(t, "patch_trackio", "getenv")
    /\ IF enable_mcp(env_TRACKIO_ENABLE_MCP)
       THEN Call(t, At(t, "import_gr"), Frame("_install_import_hook", "check", "", 0))
       ELSE Return(t)
    /\ UNCHANGED <<launch_side, patch_vars, sys_modules, hist, observe>>

\* line 30: import gradio as gr
pt_import_gradio(t) ==
    /\ Running(t, "patch_trackio", "import_gr")
    /\ ImportStatement(t, At(t, "imported_gr"), "gradio")
    /\ UNCHANGED <<launch_side, patch_vars, hist, observe>>

\* line 31: _patch_gradio_launch(gr)
pt_patch_gradio(t) ==
    /\ Running(t, "patch_trackio", "imported_gr")
    /\ Call(t, At(t, "return"), Frame("_patch_gradio_launch", "lock", "", 0))
    /\ UNCHANGED <<launch_side, patch_vars, sys_modules, hist, observe>>

pt_return(t) ==
    /\ Running(t, "patch_trackio", "return")
    /\ Return(t)
    /\ UNCHANGED <<launch_side, patch_vars, sys_modules, hist, observe>>

patch_trackio(t) ==
    \/ pt_getenv(t)
    \/ pt_import_gradio(t)
    \/ pt_patch_gradio(t)
    \/ pt_return(t)

(***************************************************************************)
(* monkey_patch.patched_blocks_launch, lines 84-107: the wrapper, and the  *)
(* genuine Blocks.launch it wraps.                                         *)
(***************************************************************************)
\* bool(v) of the values above
Truthy(v) == v = "True"

\* A plausible slip: the default is forced.
Overwrite(d, k, v) == [d EXCEPT ![k] = v]

\* dict.setdefault(k, v)
setdefault(d, k, v) == IF d[k] = Absent THEN [d EXCEPT ![k] = v] ELSE d

\* dict.get(k, default)
get(d, k, default) == IF d[k] = Absent THEN default ELSE d[k]

\* str.rstrip('/') on a URL given as its pieces, "/" a piece of its own
RECURSIVE rstrip(_)
rstrip(u) ==
    IF u # <<>> /\ u[Len(u)] = "/" THEN rstrip(SubSeq(u, 1, Len(u) - 1)) ELSE u

\* Calling the launch f: the genuine one, or the wrapper number f, whose
\* closure holds launch f - 1.
LaunchFrame(f) ==
    IF f = 0
    THEN Frame("launch", "run", "", 0)
    ELSE Frame("patched_blocks_launch", "setdefault", "", f - 1)

\* The requester calls demo.launch(*args, **kw) on a Blocks instance, which may
\* have been launched before (url: its local_url then).
call_launch(t, args, kw, url) ==
    /\ "gradio" \in sys_modules
    /\ Idle(t)
    /\ Call(t, <<Requester("launch")>>, LaunchFrame(Blocks_launch))
    /\ hist' = [hist EXCEPT ![t] = NewHist("launch", "", [args |-> args, kwargs |-> kw])]
    /\ kwargs' = [kwargs EXCEPT ![t] = [args |-> args, kwargs |-> kw]]
    /\ local_url' = [local_url EXCEPT ![t] = url]
    /\ UNCHANGED <<env_TRACKIO_ENABLE_MCP, env_TRACKIO_MCP_ENABLED, query, cli, installed,
                   patch_vars, sys_modules, observe>>

\* lines 89-90: kwargs.setdefault('mcp_server', True), ('show_api', True)
pbl_setdefault(t) ==
    /\ Running(t, "patched_blocks_launch", "setdefault")
    /\ kwargs' = [kwargs EXCEPT ![t].kwargs =
                     setdefault(setdefault(@, "mcp_server", "True"), "show_api", "True")]
    /\ Goto(t, "marker")
    /\ UNCHANGED <<env_TRACKIO_ENABLE_MCP, env_TRACKIO_MCP_ENABLED, local_url, query, cli,
                   installed, patch_vars, sys_modules, hist, observe>>

\* lines 93-94: os.environ['TRACKIO_MCP_ENABLED'] = 'true' if mcp_server is truthy
pbl_marker(t) ==
    /\ Running(t, "patched_blocks_launch", "marker")
    /\ env_TRACKIO_MCP_ENABLED' =
          IF Truthy(get(kwargs[t].kwargs, "mcp_server", "False"))
          THEN "true"
          ELSE env_TRACKIO_MCP_ENABLED
    /\ Goto(t, "call")
    /\ UNCHANGED <<env_TRACKIO_ENABLE_MCP, kwargs, local_url, query, cli, installed,
                   patch_vars, sys_modules, hist, observe>>

\* line 96: result = original_blocks_launch(self, *args, **kwargs)
pbl_call(t) ==
    /\ Running(t, "patched_blocks_launch", "call")
    /\ Call(t, At(t, "print"), LaunchFrame(Top(t).loc))
    /\ UNCHANGED <<launch_side, patch_vars, sys_modules, hist, observe>>

\* A plausible slip: quiet is not consulted.
ShouldPrintIgnoringQuiet(t) ==
    /\ Truthy(get(kwargs[t].kwargs, "mcp_server", "False"))
    /\ local_url[t].has
    /\ local_url[t].value # <<>>

\* lines 99-101: the test that guards the two print calls
ShouldPrint(t) ==
    /\ Truthy(get(kwargs[t].kwargs, "mcp_server", "False"))
    /\ ~Truthy(get(kwargs[t].kwargs, "quiet", "False"))
    /\ local_url[t].has
    /\ local_url[t].value # <<>>

\* lines 99-107: the two URLs, return result
pbl_print(t) ==
    /\ Running(t, "patched_blocks_launch", "print")
    /\ hist' = [hist EXCEPT ![t].printed =
                   IF ShouldPrint(t)
                   THEN @ \o << <<"MCP Server: ">> \o rstrip(local_url[t].value)
                                    \o <<"/gradio_api/mcp/sse">>,
                                <<"MCP Schema: ">> \o rstrip(local_url[t].value)
                                    \o <<"/gradio_api/mcp/schema">> >>
                   ELSE @]
    /\ Return(t)
    /\ UNCHANGED <<launch_side, patch_vars, sys_modules, observe>>

patched_blocks_launch(t) ==
    \/ pbl_setdefault(t)
    \/ pbl_marker(t)
    \/ pbl_call(t)
    \/ pbl_print(t)

\* gradio's own Blocks.launch: it is called with what reached it, and it
\* returns, having set self.local_url, or it raises.
launch_run(t) ==
    /\ Running(t, "launch", "run")
    /\ \E outcome \in {"ok", "LaunchError"}, url \in LocalUrls :
          /\ hist' = [hist EXCEPT ![t].calls = Append(@, kwargs[t]),
                                  ![t].marker = Append(@, env_TRACKIO_MCP_ENABLED),
                                  ![t].original = outcome]
          /\ IF outcome = "ok"
             THEN /\ local_url' = [local_url EXCEPT ![t] = url]
                  /\ Return(t)
             ELSE /\ url = local_url[t]
                  /\ UNCHANGED local_url
                  /\ Raise(t, outcome)
    /\ UNCHANGED <<env_TRACKIO_ENABLE_MCP, env_TRACKIO_MCP_ENABLED, kwargs, query, cli,
                   installed, patch_vars, sys_modules, observe>>

(***************************************************************************)
(* Exceptions: the except clauses of monkey_patch.py.                      *)
(***************************************************************************)
\* lines 58 and 136: except (ImportError, AttributeError)
HookCatches(e) == e \in {"ImportError", "AttributeError"}

\* line 32: except ImportError
PatchTrackioCatches(e) == e = "ImportError"

\* A plausible slip: the wrapper guards the original call and goes on.
LaunchCatchesAll(e) == TRUE

\* line 96: the wrapper calls the original outside any try statement
LaunchCatches(e) == FALSE

\* A plausible slip: the entry point guards against a missing gradio only.
InitCatchesImportError(e) == e = "ImportError"

\* __init__.py line 19: except Exception
InitCatches(e) ==
    e \in {"ImportError", "AttributeError", "RecursionError", "TypeError", "NameError"}

\* The top frame of t catches the exception in flight.
Catches(t) ==
    LET f == Top(t)
    IN  \/ f.fn = "patched_import" /\ f.pc \in {"imported_gr", "patched_gr"}
                                   /\ HookCatches(exc[t])
        \/ f.fn = "_patch_trackio_ui" /\ HookCatches(exc[t])
        \/ f.fn = "patch_trackio" /\ f.pc \in {"imported_gr", "return"}
                                  /\ PatchTrackioCatches(exc[t])
        \/ f.fn = "patched_blocks_launch" /\ f.pc = "print" /\ LaunchCatches(exc[t])
        \/ f.fn = "__init__" /\ f.pc = "done" /\ InitCatches(exc[t])

\* One frame of unwinding: the frame catches the exception and goes on after
\* its try statement, or it is left and the exception reaches its caller.
Unwind(t) ==
    /\ stack[t] # <<>>
    /\ exc[t] # NoExc
    /\ Top(t).fn # "requester"
    /\ IF Catches(t)
       THEN /\ exc' = [exc EXCEPT ![t] = NoExc]
            /\ stack' = [stack EXCEPT ![t] =
                            CASE Top(t).fn = "patched_import" -> At(t, "check_trackio")
                              [] Top(t).fn = "patched_blocks_launch" -> At(t, "print")
                              [] Top(t).fn = "__init__" -> stack[t]
                              [] OTHER -> Popped(t)]
            /\ UNCHANGED hist
       ELSE /\ stack' = [stack EXCEPT ![t] = Popped(t)]
            /\ UNCHANGED exc
            /\ hist' = [hist EXCEPT ![t].original =
                           IF /\ Outermost(t)
                              /\ Top(t).fn = "patched_import"
                              /\ Top(t).pc = "after_original"
                           THEN exc[t]
                           ELSE hist[t].original,
                                    ![t].entry =
                           IF /\ Top(t).fn = "patch_trackio"
                              /\ Len(stack[t]) = 3
                              /\ stack[t][2].fn = "__init__"
                           THEN exc[t]
                           ELSE hist[t].entry]
    \* leaving the with block releases the lock
    /\ _patch_lock' = IF Top(t).fn = "_patch_gradio_launch" /\ _patch_lock = t
                      THEN NoThread
                      ELSE _patch_lock
    /\ UNCHANGED <<launch_side, builtins_import, _original_import, _gradio_patched,
                   Blocks_launch, Blocks_original_launch, launch_writes,
                   original_writes, demo_mcp_patched, sys_modules, observe>>

\* The request is over and the requester has its answer: the function returned
\* (exc[t] = NoExc) or exc[t] reached the requester.
Done(t) ==
    /\ Len(stack[t]) = 1
    /\ Top(t).fn = "requester"

Finished(t, op) == Done(t) /\ hist[t].op = op

\* The requester goes on.
Finish(t) ==
    /\ Len(stack[t]) = 1
    /\ Top(t).fn = "requester"
    /\ hist' = [hist EXCEPT ![t] = NoRequest]
    /\ stack' = [stack EXCEPT ![t] = <<>>]
    /\ exc' = [exc EXCEPT ![t] = NoExc]
    /\ kwargs' = [kwargs EXCEPT ![t] = NoCall]
    /\ local_url' = [local_url EXCEPT ![t] = NoUrl]
    /\ UNCHANGED <<env_TRACKIO_ENABLE_MCP, env_TRACKIO_MCP_ENABLED, query, cli, installed,
                   patch_vars, sys_modules, observe>>

(***************************************************************************)
(* The environment: a distribution is installed while the process runs.    *)
(***************************************************************************)
pip_install(d) ==
    /\ d \notin installed
    /\ installed' = installed \cup {d}
    /\ UNCHANGED <<env_TRACKIO_ENABLE_MCP, env_TRACKIO_MCP_ENABLED, kwargs, local_url,
                   query, cli, patch_vars, sys_modules, stack, exc, hist, observe>>

EnvValues == {Unset, "true", "TRUE", "Yes", "1", "0", "false", "on", ""}

NoQuery == [fn |-> "none"]

NoCli == [command |-> "idle"]

InitPatch ==
    /\ env_TRACKIO_MCP_ENABLED = Unset
    /\ builtins_import = "real"
    /\ _original_import = "None"
    /\ _gradio_patched = FALSE
    /\ _patch_lock = NoThread
    /\ Blocks_launch = 0
    /\ Blocks_original_launch = NoAttr
    /\ demo_mcp_patched = FALSE
    /\ launch_writes = 0
    /\ original_writes = 0
    /\ stack = [t \in Threads |-> <<>>]
    /\ exc = [t \in Threads |-> NoExc]
    /\ kwargs = [t \in Threads |-> NoCall]
    /\ local_url = [t \in Threads |-> NoUrl]
    /\ hist = [t \in Threads |-> NoRequest]
    /\ query = NoQuery
    /\ cli = NoCli

\* The functions of monkey_patch.py, one statement per step.
Statement(t) ==
    \/ patch_trackio(t)
    \/ _install_import_hook(t)
    \/ _patch_gradio_launch(t)
    \/ restore_imports(t)
    \/ patched_import(t)
    \/ _patch_trackio_ui(t)
    \/ Unwind(t)
    \/ Finish(t)

(***************************************************************************)
(* Spec: the threads of one process call into monkey_patch.py              *)
(* concurrently; gradio and trackio are installed.                         *)
(***************************************************************************)
Init ==
    /\ InitPatch
    /\ observe = FALSE
    /\ env_TRACKIO_ENABLE_MCP = Unset
    /\ installed = {"gradio", "trackio"}
    /\ sys_modules \in {{}, {"gradio"}}

Next ==
    \E t \in Threads :
        \/ call_patch_trackio(t)
        \/ call_install_import_hook(t)
        \/ call_patch_gradio_launch(t)
        \/ call_restore_imports(t)
        \/ \E name \in {"gradio", "trackio.ui"} : request_import(t, name)
        \/ Statement(t)

Spec == Init /\ [][Next]_vars

(***************************************************************************)
(* SeqSpec: one thread calls into monkey_patch.py, one request after the   *)
(* other, under every value of the switch; gradio and trackio may be       *)
(* installed from the start, or later, or never.  A step is a statement of *)
(* the function the thread is in.                                          *)
(***************************************************************************)
SeqThread == "t1"

In(t, fn) == stack[t] # <<>> /\ Top(t).fn = fn

SeqInit ==
    /\ InitPatch
    /\ observe = TRUE
    /\ env_TRACKIO_ENABLE_MCP \in EnvValues
    /\ installed \in SUBSET {"gradio", "trackio"}
    /\ sys_modules \in {{}} \cup {{"gradio"} : d \in installed \cap {"gradio"}}

seq_patch_trackio == In(SeqThread, "patch_trackio") /\ patch_trackio(SeqThread)

seq_install_import_hook ==
    In(SeqThread, "_install_import_hook") /\ _install_import_hook(SeqThread)

seq_patch_gradio_launch ==
    In(SeqThread, "_patch_gradio_launch") /\ _patch_gradio_launch(SeqThread)

seq_restore_imports == In(SeqThread, "restore_imports") /\ restore_imports(SeqThread)

seq_patched_import == In(SeqThread, "patched_import") /\ patched_import(SeqThread)

seq_patch_trackio_ui == In(SeqThread, "_patch_trackio_ui") /\ _patch_trackio_ui(SeqThread)

SeqNext ==
    \/ call_patch_trackio(SeqThread)
    \/ call_install_import_hook(SeqThread)
    \/ call_patch_gradio_launch(SeqThread)
    \/ call_restore_imports(SeqThread)
    \/ \E name \in ModuleNames : request_import(SeqThread, name)
    \/ seq_patch_trackio
    \/ seq_install_import_hook
    \/ seq_patch_gradio_launch
    \/ seq_restore_imports
    \/ seq_patched_import
    \/ seq_patch_trackio_ui
    \/ Unwind(SeqThread)
    \/ Finish(SeqThread)
    \/ \E d \in {"gradio", "trackio"} : pip_install(d)

SeqSpec == SeqInit /\ [][SeqNext]_vars

(***************************************************************************)
(* __init__.py, lines 8-21: the package entry point, run by the first      *)
(* `import trackio_mcp` of the process.                                    *)
(***************************************************************************)
call_import_package(t) ==
    /\ "trackio_mcp" \notin sys_modules
    /\ builtins_import = "real"
    /\ Begin(t, "import trackio_mcp", "trackio_mcp",
             Frame("__init__", "import_tools", "", 0))
    /\ UNCHANGED <<launch_side, patch_vars, sys_modules, observe>>

\* line 10: from .tools import register_trackio_tools.  tools.py lines 9-16:
\* `import gradio as gr` is guarded by except ImportError, but the annotation
\* Optional[gr.Blocks] of line 16 names gr: where annotations are evaluated at
\* the def statement that is a NameError when gradio is missing.
pkg_import_tools(t) ==
    /\ Running(t, "__init__", "import_tools")
    /\ IF Importable("gradio")
       THEN /\ sys_modules' = Loaded("gradio")
            /\ Goto(t, "patch")
       ELSE /\ UNCHANGED sys_modules
            /\ \E eager \in BOOLEAN :
                  IF eager THEN Raise(t, "NameError") ELSE Goto(t, "patch")
    /\ UNCHANGED <<launch_side, patch_vars, hist, observe>>

\* lines 17-18: try: patch_trackio()
pkg_patch(t) ==
    /\ Running(t, "__init__", "patch")
    /\ Call(t, At(t, "done"), Frame("patch_trackio", "getenv", "", 0))
    /\ hist' = [hist EXCEPT ![t].entry = "called"]
    /\ UNCHANGED <<launch_side, patch_vars, sys_modules, observe>>

\* The module body is over: trackio_mcp is in sys.modules, with its names
\* patch_trackio and register_trackio_tools.
pkg_done(t) ==
    /\ Running(t, "__init__", "done")
    /\ sys_modules' = sys_modules \cup {"trackio_mcp"}
    /\ Return(t)
    /\ UNCHANGED <<launch_side, patch_vars, hist, observe>>

package_init(t) ==
    \/ pkg_import_tools(t)
    \/ pkg_patch(t)
    \/ pkg_done(t)

(***************************************************************************)
(* PackageSpec: SeqSpec, and the thread may import the package.            *)
(***************************************************************************)
seq_package_init == In(SeqThread, "__init__") /\ package_init(SeqThread)

PackageNext ==
    \/ call_import_package(SeqThread)
    \/ seq_package_init
    \/ SeqNext

PackageSpec == SeqInit /\ [][PackageNext]_vars

(***************************************************************************)
(* tools.py: the query functions of register_trackio_tools, lines 35-287.  *)
(* A call is one step: the functions share no state.  The collaborators    *)
(* (SQLiteStorage, trackio.ui, pandas, json) behave as the world w of the  *)
(* call says; the result of a call is what the function returned or        *)
(* raised, with the calls it made to the storage and to trackio.ui and the *)
(* first exception raised inside it.                                       *)
(***************************************************************************)
Worlds ==
    [projects : {"raise", "ok"},
     runs     : {"raise", "empty", "some"},
     metrics  : {"raise", "empty", "some", "unserializable"},
     ui_gam   : {"absent", "raise", "ok"},      \* trackio_ui.get_available_metrics
     ui_lrd   : {"absent", "raise", "none", "ok", "unserializable"},
                                                \* trackio_ui.load_run_data
     pandas   : BOOLEAN]                        \* pandas can be imported

Number(n) == [type |-> "number", v |-> n]
Object == [type |-> "object", v |-> 0]
Text == [type |-> "str", v |-> 0]

\* SQLiteStorage.get_projects()
StoredProjects == <<"p1">>

\* SQLiteStorage.get_runs(project)
StoredRuns(w) == IF w.runs = "some" THEN <<"run-1", "Run-2">> ELSE <<>>

\* SQLiteStorage.get_metrics(project, run): rows of columns
StoredMetrics(w) ==
    CASE w.metrics = "some" ->
            <<[step |-> Number(0), loss |-> Number(5), timestamp |-> Text],
              [step |-> Number(1), loss |-> Number(4), timestamp |-> Text]>>
      [] w.metrics = "unserializable" ->
            <<[step |-> Number(0), loss |-> Object, timestamp |-> Text]>>
      [] OTHER -> <<>>

Columns == {"step", "loss", "timestamp"}

\* json.dumps accepts the rows
Serializable(rows) ==
    \A i \in DOMAIN rows : \A c \in Columns : rows[i][c].type # "object"

\* lines 164-166: df.select_dtypes(include="number").columns without step, timestamp
NumericColumns(rows) ==
    {c \in Columns : \A i \in DOMAIN rows : rows[i][c].type = "number"}
        \ {"step", "timestamp"}

\* sorted(list(columns))
Sorted(cols) == SelectSeq(<<"loss", "step", "timestamp">>, LAMBDA c : c \in cols)

\* len(set(m.get("step", 0) for m in metrics))
Steps(rows) == Cardinality({rows[i].step.v : i \in DOMAIN rows})

Returned(envelope, sc, uc) ==
    [kind |-> "return", envelope |-> envelope, error |-> "", raised |-> "",
     storage_calls |-> sc, ui_calls |-> uc]

Raised(msg, sc, uc) ==
    [kind |-> "raise", envelope |-> <<>>, error |-> msg, raised |-> msg,
     storage_calls |-> sc, ui_calls |-> uc]

\* json.dumps({"success": True, ...})
Success(fields, payload, serializable, sc, uc) ==
    IF serializable
    THEN Returned([success |-> TRUE, keys |-> {"success"} \cup fields, error |-> "",
                   payload |-> payload], sc, uc)
    ELSE Raised("Object of type object is not JSON serializable", sc, uc)

\* A plausible slip: the rejection carries no message.
FailureBare(msg, sc, uc) ==
    Returned([success |-> FALSE, keys |-> {"success"}, error |-> "",
              payload |-> <<>>], sc, uc)

\* json.dumps({"success": False, "error": msg})
Failure(msg, sc, uc) ==
    Returned([success |-> FALSE, keys |-> {"success", "error"}, error |-> msg,
              payload |-> <<>>], sc, uc)

\* A plausible slip: the handler catches only what the storage raises.
ExceptStorageOnly(r) ==
    IF r.kind = "raise" /\ r.error = "database is locked"
    THEN [r EXCEPT !.kind = "return",
                   !.envelope = [success |-> FALSE,
                                 keys |-> {"success", "error", "traceback"},
                                 error |-> r.error, payload |-> <<>>],
                   !.error = ""]
    ELSE r

\* except Exception as e: return json.dumps({"success": False, "error": str(e),
\* "traceback": traceback.format_exc()}), the handler of every query function
ExceptException(r) ==
    IF r.kind = "raise"
    THEN [r EXCEPT !.kind = "return",
                   !.envelope = [success |-> FALSE,
                                 keys |-> {"success", "error", "traceback"},
                                 error |-> r.error, payload |-> <<>>],
                   !.error = ""]
    ELSE r

\* A plausible slip: the parameter is not validated.
NotChecked(s) == FALSE

\* `not project`, `not run` on a string
Not(s) == Chars(s) = <<>>

\* lines 36-50
get_projects(w) ==
    ExceptException(
        IF w.projects = "raise"
        THEN Raised("database is locked", 1, 0)
        ELSE Success({"projects", "count"},
                     [projects |-> StoredProjects, count |-> Len(StoredProjects)],
                     TRUE, 1, 0))

\* lines 53-74
get_runs(project, w) ==
    ExceptException(
        IF Not(project) THEN Failure("Project name is required", 0, 0)
        ELSE IF w.runs = "raise" THEN Raised("database is locked", 1, 0)
        ELSE Success({"project", "runs", "count"},
                     [project |-> project, runs |-> StoredRuns(w),
                      count |-> Len(StoredRuns(w))],
                     TRUE, 1, 0))

\* lines 77-105
filter_runs(project, filter_text, w) ==
    ExceptException(
        IF Not(project) THEN Failure("Project name is required", 0, 0)
        ELSE IF w.runs = "raise" THEN Raised("database is locked", 1, 0)
        ELSE LET all_runs == StoredRuns(w)
                 filtered_runs ==
                     IF ~Not(filter_text)
                     THEN SelectSeq(all_runs,
                             LAMBDA r : Contains(Lower(Chars(r)), Lower(Chars(filter_text))))
                     ELSE all_runs
             IN  Success({"project", "filter", "runs", "total_runs", "filtered_count"},
                         [project |-> project, filter |-> filter_text,
                          runs |-> filtered_runs, total_runs |-> Len(all_runs),
                          filtered_count |-> Len(filtered_runs)],
                         TRUE, 1, 0))

\* lines 108-130
get_run_metrics(project, run, w) ==
    ExceptException(
        IF Not(project) \/ Not(run)
        THEN Failure("Both project and run names are required", 0, 0)
        ELSE IF w.metrics = "raise" THEN Raised("database is locked", 1, 0)
        ELSE Success({"project", "run", "metrics", "count"},
                     [project |-> project, run |-> run, metrics |-> StoredMetrics(w),
                      count |-> Len(StoredMetrics(w))],
                     Serializable(StoredMetrics(w)), 1, 0))

\* The runs parameter of get_available_metrics: None, a JSON list, a JSON
\* number, or text that is no JSON.
RunsParams == {"None", "json_list", "json_number", "comma_separated"}

\* lines 143-149: run_list, as [iterable, empty, list]
ParsedRuns(runs) ==
    CASE runs = "json_list"       -> [iterable |-> TRUE, empty |-> FALSE, list |-> <<"run-1">>]
      [] runs = "comma_separated" -> [iterable |-> TRUE, empty |-> FALSE,
                                      list |-> <<"run-1", "Run-2">>]
      [] runs = "json_number"     -> [iterable |-> FALSE, empty |-> FALSE, list |-> <<>>]
      [] OTHER                    -> [iterable |-> TRUE, empty |-> TRUE, list |-> <<>>]

\* lines 133-182
get_available_metrics(project, runs, w) ==
    ExceptException(
        IF Not(project) THEN Failure("Project name is required", 0, 0)
        ELSE
        LET parsed == ParsedRuns(runs)
            sc1 == IF parsed.empty THEN 1 ELSE 0
            run_list == IF parsed.empty THEN StoredRuns(w) ELSE parsed.list
        IN  IF parsed.empty /\ w.runs = "raise" THEN Raised("database is locked", 1, 0)
            ELSE IF w.ui_gam # "absent"
            THEN IF w.ui_gam = "raise"
                 THEN Raised("trackio.ui failed", sc1, 1)
                 ELSE Success({"project", "runs", "metrics", "count"},
                              [project |-> project, runs |-> run_list,
                               metrics |-> <<"loss">>, count |-> 1],
                              TRUE, sc1, 1)
            ELSE IF ~parsed.iterable
            THEN Raised("'int' object is not iterable", sc1, 0)
            ELSE IF run_list = <<>>
            THEN Success({"project", "runs", "metrics", "count"},
                         [project |-> project, runs |-> run_list,
                          metrics |-> <<>>, count |-> 0],
                         TRUE, sc1, 0)
            ELSE IF w.metrics = "raise"
            THEN Raised("database is locked", sc1 + 1, 0)
            ELSE IF StoredMetrics(w) # <<>> /\ ~w.pandas
            THEN Raised("No module named 'pandas'", sc1 + 1, 0)
            ELSE LET available_metrics == Sorted(NumericColumns(StoredMetrics(w)))
                 IN  Success({"project", "runs", "metrics", "count"},
                             [project |-> project, runs |-> run_list,
                              metrics |-> IF StoredMetrics(w) = <<>> THEN <<>>
                                          ELSE available_metrics,
                              count |-> IF StoredMetrics(w) = <<>> THEN 0
                                        ELSE Len(available_metrics)],
                             TRUE, sc1 + Len(run_list), 0))

\* lines 185-232
load_run_data(project, run, w) ==
    ExceptException(
        IF Not(project) \/ Not(run)
        THEN Failure("Both project and run names are required", 0, 0)
        ELSE IF w.ui_lrd # "absent"
        THEN CASE w.ui_lrd = "raise" -> Raised("trackio.ui failed", 0, 1)
               [] w.ui_lrd = "none"  -> Failure("No data found for the specified run", 0, 1)
               [] OTHER ->
                    Success({"project", "run", "x_axis", "smoothing", "data", "rows"},
                            [project |-> project, run |-> run, rows |-> 1],
                            w.ui_lrd = "ok", 0, 1)
        ELSE IF w.metrics = "raise" THEN Raised("database is locked", 1, 0)
        ELSE Success({"project", "run", "x_axis", "smoothing", "data", "rows"},
                     [project |-> project, run |-> run, rows |-> Len(StoredMetrics(w))],
                     Serializable(StoredMetrics(w)), 1, 0))

\* lines 235-287
get_project_summary(project, w) ==
    ExceptException(
        IF Not(project) THEN Failure("Project name is required", 0, 0)
        ELSE IF w.runs = "raise" THEN Raised("database is locked", 1, 0)
        ELSE IF StoredRuns(w) = <<>>
        THEN Success({"project", "runs", "metrics", "summary"},
                     [project |-> project, runs |-> <<>>, metrics |-> <<>>],
                     TRUE, 1, 0)
        ELSE IF w.metrics = "raise" THEN Raised("database is locked", 2, 0)
        ELSE IF StoredMetrics(w) # <<>> /\ ~w.pandas
        THEN Raised("No module named 'pandas'", 2, 0)
        ELSE LET all_metrics == IF StoredMetrics(w) = <<>> THEN {}
                                ELSE NumericColumns(StoredMetrics(w))
             IN  Success({"project", "runs", "run_count", "metrics", "metric_count",
                          "run_stats"},
                         [project |-> project, runs |-> StoredRuns(w),
                          run_count |-> Len(StoredRuns(w)),
                          metrics |-> Sorted(all_metrics),
                          metric_count |-> Cardinality(all_metrics),
                          run_stats |-> [metric_count |-> Len(StoredMetrics(w)),
                                         steps |-> Steps(StoredMetrics(w))]],
                         TRUE, 1 + Len(StoredRuns(w)), 0))

Projects == {"", "p1"}
RunNames == {"", "run-1"}
Filters == {"", "RUN", "2"}

Asked(fn, project, run, filter_text, runs, w, result) ==
    /\ query' = [fn |-> fn, project |-> project, run |-> run,
                 filter_text |-> filter_text, runs |-> runs, world |-> w,
                 result |-> result]
    /\ UNCHANGED <<env_TRACKIO_ENABLE_MCP, env_TRACKIO_MCP_ENABLED, kwargs, local_url,
                   installed, patch_vars, sys_modules, stack, exc, hist, observe, cli>>

ask_get_projects ==
    /\ query.fn = "none"
    /\ \E w \in Worlds : Asked("get_projects", "", "", "", "None", w, get_projects(w))

ask_get_runs ==
    /\ query.fn = "none"
    /\ \E w \in Worlds, project \in Projects :
           Asked("get_runs", project, "", "", "None", w, get_runs(project, w))

ask_filter_runs ==
    /\ query.fn = "none"
    /\ \E w \in Worlds, project \in Projects, filter_text \in Filters :
           Asked("filter_runs", project, "", filter_text, "None", w,
                 filter_runs(project, filter_text, w))

ask_get_run_metrics ==
    /\ query.fn = "none"
    /\ \E w \in Worlds, project \in Projects, run \in RunNames :
           Asked("get_run_metrics", project, run, "", "None", w,
                 get_run_metrics(project, run, w))

ask_get_available_metrics ==
    /\ query.fn = "none"
    /\ \E w \in Worlds, project \in Projects, runs \in RunsParams :
           Asked("get_available_metrics", project, "", "", runs, w,
                 get_available_metrics(project, runs, w))

ask_load_run_data ==
    /\ query.fn = "none"
    /\ \E w \in Worlds, project \in Projects, run \in RunNames :
           Asked("load_run_data", project, run, "", "None", w,
                 load_run_data(project, run, w))

ask_get_project_summary ==
    /\ query.fn = "none"
    /\ \E w \in Worlds, project \in Projects :
           Asked("get_project_summary", project, "", "", "None", w,
                 get_project_summary(project, w))

\* The client has its answer and may ask again.
answered ==
    /\ query.fn # "none"
    /\ query' = NoQuery
    /\ UNCHANGED <<env_TRACKIO_ENABLE_MCP, env_TRACKIO_MCP_ENABLED, kwargs, local_url,
                   installed, patch_vars, sys_modules, stack, exc, hist, observe, cli>>

(***************************************************************************)
(* QuerySpec: a client calls the query functions, one call after the       *)
(* other, with every input and every behaviour of the collaborators.       *)
(***************************************************************************)
QueryInit ==
    /\ InitPatch
    /\ observe = FALSE
    /\ env_TRACKIO_ENABLE_MCP = Unset
    /\ installed = {"gradio", "trackio"}
    /\ sys_modules = {"gradio", "trackio", "trackio.ui"}

QueryNext ==
    \/ ask_get_projects
    \/ ask_get_runs
    \/ ask_filter_runs
    \/ ask_get_run_metrics
    \/ ask_get_available_metrics
    \/ ask_load_run_data
    \/ ask_get_project_summary
    \/ answered

QuerySpec == QueryInit /\ [][QueryNext]_vars

(***************************************************************************)
(* cli.py: main and its subcommands, lines 10-248, with                     *)
(* tools.launch_trackio_mcp_server, lines 324-340.  A run of the command   *)
(* line is one step; what it calls behaves as the world w of the run says. *)
(***************************************************************************)
Argvs == {<<>>, <<"server">>, <<"status">>, <<"test">>, <<"bogus">>}

CliWorlds ==
    [interface : {"Blocks", "None", "ImportError", "RuntimeError"},
                                        \* register_trackio_tools()
     launch    : {"served", "ImportError", "OSError"},
                                        \* trackio_tools.launch(...)
     imports   : {"ok", "ImportError", "RecursionError"},
                                        \* import trackio, import gradio in _show_status
     requests  : BOOLEAN,               \* requests can be imported
     reachable : {"200", "500", "raise"}]
                                        \* requests.get(url, timeout=5)

\* return code
Exit(code, started) ==
    [kind |-> "return", code |-> code, error |-> "", started |-> started]

\* an exception leaves the function
Throw(e) == [kind |-> "raise", code |-> 1, error |-> e, started |-> FALSE]

\* argparse ends the process itself: sys.exit(2) on a command it does not know
SystemExit(code) == [kind |-> "exit", code |-> code, error |-> "SystemExit", started |-> FALSE]

\* cli.py line 59: args = parser.parse_args(argv); args.command
parse_args(argv) ==
    IF argv = <<>> THEN "None"
    ELSE IF argv[1] \in {"server", "status", "test"} THEN argv[1]
    ELSE "SystemExit"

\* tools.py lines 324-340: returns None whether it served or gave up
launch_trackio_mcp_server(w) ==
    CASE w.interface = "None"   -> Exit(0, FALSE)
      [] w.interface # "Blocks" -> Throw(w.interface)
      [] w.launch = "served"    -> Exit(0, TRUE)
      [] OTHER                  -> Throw(w.launch)

\* cli.py lines 72-93
_run_server(w) ==
    LET r == launch_trackio_mcp_server(w)
    IN  IF r.kind = "return" THEN Exit(0, r.started) ELSE Exit(1, FALSE)

\* cli.py lines 96-173: the imports are guarded by except ImportError only
_show_status(w) ==
    IF w.imports = "RecursionError" THEN Throw("RecursionError") ELSE Exit(0, FALSE)

\* cli.py lines 176-248
_test_server(w) ==
    IF ~w.requests THEN Throw("ImportError")
    ELSE IF w.reachable = "raise" THEN Exit(1, FALSE)
    ELSE Exit(0, FALSE)

\* cli.py lines 10-69
main(argv, w) ==
    LET command == parse_args(argv)
    IN  CASE command = "SystemExit" -> SystemExit(2)
          [] command = "server"     -> _run_server(w)
          [] command = "status"     -> _show_status(w)
          [] command = "test"       -> _test_server(w)
          [] OTHER                  -> Exit(1, FALSE)

\* The command line is run.
run_main ==
    /\ cli.command = "idle"
    /\ \E argv \in Argvs, w \in CliWorlds :
          cli' = [command |-> IF argv = <<>> THEN "" ELSE argv[1],
                  world |-> w, result |-> main(argv, w)]
    /\ UNCHANGED <<env_TRACKIO_ENABLE_MCP, env_TRACKIO_MCP_ENABLED, kwargs, local_url,
                   installed, patch_vars, sys_modules, stack, exc, hist, observe, query>>

\* The process has ended.
exited ==
    /\ cli.command # "idle"
    /\ cli' = NoCli
    /\ UNCHANGED <<env_TRACKIO_ENABLE_MCP, env_TRACKIO_MCP_ENABLED, kwargs, local_url,
                   installed, patch_vars, sys_modules, stack, exc, hist, observe, query>>

(***************************************************************************)
(* CliSpec: the command line is run, again and again, with every command   *)
(* and every behaviour of what it calls.                                   *)
(***************************************************************************)
CliInit ==
    /\ InitPatch
    /\ observe = FALSE
    /\ env_TRACKIO_ENABLE_MCP = Unset
    /\ installed = {"gradio", "trackio"}
    /\ sys_modules = {"gradio"}

CliNext == run_main \/ exited

CliSpec == CliInit /\ [][CliNext]_vars

(***************************************************************************)
(* LaunchSpec: gradio is loaded; one thread patches Blocks.launch at some  *)
(* point and calls launch on a Blocks instance, before and after, with     *)
(* every combination of the three keyword arguments.                       *)
(***************************************************************************)
LaunchInit ==
    /\ InitPatch
    /\ observe = TRUE
    /\ env_TRACKIO_ENABLE_MCP = Unset
    /\ installed = {"gradio"}
    /\ sys_modules = {"gradio"}

LaunchNext ==
    \/ call_patch_gradio_launch(SeqThread)
    \/ _patch_gradio_launch(SeqThread)
    \/ \E args \in {<<>>, <<"inline">>}, kw \in [Keys -> Values \cup {Absent}],
          url \in LocalUrls :
          call_launch(SeqThread, args, kw, url)
    \/ patched_blocks_launch(SeqThread)
    \/ launch_run(SeqThread)
    \/ Unwind(SeqThread)
    \/ Finish(SeqThread)

LaunchSpec == LaunchInit /\ [][LaunchNext]_vars

(***************************************************************************)
(* The properties.                                                         *)
(***************************************************************************)
Patched == Blocks_launch >= 1

\* C1: when threads call _patch_gradio_launch concurrently on an unpatched
\* Blocks, exactly one of them assigns Blocks._original_launch and
\* Blocks.launch: neither is ever assigned twice, and once any of the calls has
\* returned both were assigned once, _original_launch is the launch that was
\* there before the calls and launch is the one wrapper around it.
C1_ExactlyOneMutation ==
    /\ launch_writes <= 1
    /\ original_writes <= 1
    /\ Blocks_original_launch \in {NoAttr, 0}
    /\ \A t \in Threads :
          Finished(t, "_patch_gradio_launch") /\ exc[t] = NoExc
              => /\ launch_writes = 1
                 /\ original_writes = 1
                 /\ Blocks_original_launch = 0
                 /\ Blocks_launch = 1

\* C1: the calls of both threads to _patch_gradio_launch overlapped, and both
\* have run to their return; Blocks.launch was assigned once.
C1_Witness ==
    /\ \A t \in Threads : Finished(t, "_patch_gradio_launch") /\ exc[t] = NoExc
    /\ launch_writes = 1

\* C2: once Blocks._original_launch is set, no request changes it or
\* Blocks.launch again, whatever was called in between: it is written once, it
\* is the genuine launch and not the wrapper, and launch is wrapped once.  A
\* direct activation that begins on a patched Blocks, also after
\* restore_imports has reset the module flag, leaves both as they were.
C2_SecondActivationNoOp ==
    /\ [](/\ original_writes <= 1
          /\ launch_writes <= 1
          /\ Blocks_original_launch \in {NoAttr, 0}
          /\ Blocks_launch <= 1
          /\ \A t \in Threads :
                /\ Finished(t, "_patch_gradio_launch")
                /\ hist[t].before.Blocks_original_launch # NoAttr
                => /\ Blocks_original_launch = hist[t].before.Blocks_original_launch
                   /\ Blocks_launch = hist[t].before.Blocks_launch)
    /\ [][/\ Blocks_original_launch # NoAttr => UNCHANGED Blocks_original_launch
          /\ Blocks_launch >= 1 => UNCHANGED Blocks_launch]_vars

\* C2: an activation that began after a patch and after restore_imports, which
\* reset _gradio_patched, has returned.
C2_Witness ==
    \E t \in Threads :
        /\ Finished(t, "_patch_gradio_launch")
        /\ exc[t] = NoExc
        /\ hist[t].before.Blocks_original_launch = 0
        /\ ~hist[t].before._gradio_patched
        /\ original_writes = 1

\* The values of the switch, by what their lower-case form is.
C3_FalsyValues == {"0", "false", "on", ""}

\* C3: a call of patch_trackio under a value of TRACKIO_ENABLE_MCP whose
\* lower-case form is none of "true", "1", "yes" changes nothing: Blocks.launch,
\* Blocks._original_launch, the module globals, the import primitive and
\* TRACKIO_MCP_ENABLED are what they were, and the marker is not set.  With the
\* variable unset (or "TRUE", "Yes", "1", "true") the call goes on and installs
\* the hook.
C3_DisabledNoMutation ==
    \A t \in Threads :
        Finished(t, "patch_trackio") =>
            IF env_TRACKIO_ENABLE_MCP \in C3_FalsyValues
            THEN /\ Snapshot = hist[t].before
                 /\ env_TRACKIO_MCP_ENABLED = Unset
                 /\ exc[t] = NoExc
            ELSE builtins_import = "hook"

\* C3: patch_trackio has returned under a falsy value of the switch that is
\* not the literal "false".
C3_Witness ==
    \E t \in Threads :
        /\ Finished(t, "patch_trackio")
        /\ env_TRACKIO_ENABLE_MCP = "on"

\* C6: what a load request made through the installed hook gives its
\* requester is what the original primitive gave: the module when it returned
\* one, its exception when it raised; no error of the hook's patch attempt
\* reaches the requester.
C6_RequesterSeesOriginalOutcome ==
    \A t \in Threads :
        Finished(t, "import") /\ hist[t].before.builtins_import = "hook"
            => \/ hist[t].original = "ok" /\ exc[t] = NoExc
               \/ hist[t].original # "ok" /\ exc[t] = hist[t].original

\* C7: when patch_trackio is called with the feature enabled and gradio can be
\* imported, Blocks.launch is patched when the call is over; and when a load
\* request for gradio succeeds in the original primitive under the installed
\* hook, Blocks.launch is patched when the request is over.
C7_PatchedWhenGradioAvailable ==
    \A t \in Threads :
        /\ Finished(t, "patch_trackio") /\ hist[t].enabled /\ hist[t].ready
           => Patched /\ exc[t] = NoExc
        /\ /\ Finished(t, "import")
           /\ hist[t].name = "gradio"
           /\ hist[t].before.builtins_import = "hook"
           /\ hist[t].original = "ok"
           => Patched /\ exc[t] = NoExc

\* C8: in a sequence of calls, _original_import is never a hook and the import
\* primitive is the real one or one hook on it; an _install_import_hook that
\* begins with the hook installed changes neither; any _install_import_hook
\* ends with the hook on the real primitive; restore_imports ends with the
\* real primitive active and nothing saved, and changes nothing when it begins
\* with no hook installed.
C8_OneHookLayer ==
    /\ _original_import \in {"None", "real"}
    /\ builtins_import \in {"real", "hook"}
    /\ builtins_import = "hook" => _original_import = "real"
    /\ \A t \in Threads :
          /\ Finished(t, "_install_import_hook")
             => /\ builtins_import = "hook"
                /\ _original_import = "real"
                /\ hist[t].before._original_import # "None"
                   => /\ builtins_import = hist[t].before.builtins_import
                      /\ _original_import = hist[t].before._original_import
          /\ Finished(t, "restore_imports")
             => /\ builtins_import = "real"
                /\ _original_import = "None"
                /\ hist[t].before._original_import = "None"
                   => Snapshot = hist[t].before

\* C8: a second _install_import_hook has returned.
C8_Witness ==
    \E t \in Threads :
        /\ Finished(t, "_install_import_hook")
        /\ hist[t].before._original_import = "real"
        /\ hist[t].before.builtins_import = "hook"

\* The request of t is a call of the patched launch that is over.
PatchedLaunchOver(t) ==
    /\ Finished(t, "launch")
    /\ hist[t].before.Blocks_launch >= 1

\* C4: a call of the patched launch calls the genuine launch exactly once, with
\* the caller's positional arguments and with the caller's keyword arguments,
\* to which mcp_server=True and show_api=True are added where the caller gave
\* none; a value the caller gave, falsy ones too, arrives as given, and quiet is
\* not added.
C4_DefaultsInjectedOnce ==
    \A t \in Threads :
        PatchedLaunchOver(t) =>
            /\ Len(hist[t].calls) = 1
            /\ hist[t].calls[1].args = hist[t].caller.args
            /\ \A k \in Keys :
                  hist[t].calls[1].kwargs[k] =
                      IF hist[t].caller.kwargs[k] # Absent THEN hist[t].caller.kwargs[k]
                      ELSE IF k \in {"mcp_server", "show_api"} THEN "True"
                      ELSE Absent

\* C4: a call of the patched launch with mcp_server=False, without show_api
\* and with a positional argument is over.
C4_Witness ==
    \E t \in Threads :
        /\ PatchedLaunchOver(t)
        /\ hist[t].caller.kwargs["mcp_server"] = "False"
        /\ hist[t].caller.kwargs["show_api"] = Absent
        /\ hist[t].caller.args # <<>>
        /\ hist[t].calls[1].kwargs["show_api"] = "True"

\* C5: when the genuine launch raises during a call of the patched launch,
\* that exception is what the caller gets, and nothing was printed.
C5_OriginalExceptionPropagates ==
    \A t \in Threads :
        PatchedLaunchOver(t) /\ hist[t].original = "LaunchError"
            => exc[t] = "LaunchError" /\ hist[t].printed = <<>>

\* C5: the genuine launch raised in a call that would have printed the URLs
\* had it returned: mcp_server defaulted, quiet not given, local_url set.
C5_Witness ==
    \E t \in Threads :
        /\ PatchedLaunchOver(t)
        /\ hist[t].original = "LaunchError"
        /\ exc[t] = "LaunchError"
        /\ hist[t].caller.kwargs["mcp_server"] = Absent
        /\ hist[t].caller.kwargs["quiet"] = Absent
        /\ local_url[t].value # <<>>

\* The call asked for a parameter the function requires, and gave "".
C9_EmptyRequired ==
    \/ /\ query.fn \in {"get_runs", "filter_runs", "get_available_metrics",
                        "get_project_summary"}
       /\ query.project = ""
    \/ /\ query.fn \in {"get_run_metrics", "load_run_data"}
       /\ (query.project = "" \/ query.run = "")

\* C9: a query function called with an empty required parameter returns an
\* envelope with success false and an error message, having called neither the
\* storage nor trackio.ui.
C9_EmptyParameterRejected ==
    C9_EmptyRequired =>
        /\ query.result.kind = "return"
        /\ ~query.result.envelope.success
        /\ query.result.envelope.error # ""
        /\ query.result.storage_calls = 0
        /\ query.result.ui_calls = 0

\* C9: get_run_metrics was called with a project and an empty run, while
\* the storage had metrics to give.
C9_Witness ==
    /\ query.fn = "get_run_metrics"
    /\ query.project = "p1"
    /\ query.run = ""
    /\ query.world.metrics = "some"
    /\ ~query.result.envelope.success

\* C10: every query function returns; when something raised inside it (the
\* storage, trackio.ui, the import of pandas, json.dumps), what it returns is
\* an envelope with success false whose error is that exception's message.
C10_NeverRaises ==
    query.fn # "none" =>
        /\ query.result.kind = "return"
        /\ query.result.raised # ""
           => /\ ~query.result.envelope.success
              /\ query.result.envelope.error = query.result.raised

\* C10: load_run_data got rows that json.dumps refuses, and returned the
\* error envelope.
C10_Witness ==
    /\ query.fn = "load_run_data"
    /\ query.result.kind = "return"
    /\ query.result.raised = "Object of type object is not JSON serializable"
    /\ query.result.envelope.error = query.result.raised

\* C11: a run of the command line returns 0 or 1 and nothing else: 1 without
\* a subcommand; for server, 0 when the server was started and 1 when it was
\* not; for test, 1 when the target is not reachable; 0 for status.
C11_ExitCodes ==
    cli.command # "idle" =>
        /\ cli.result.kind = "return"
        /\ cli.result.code \in {0, 1}
        /\ cli.command = "" => cli.result.code = 1
        /\ cli.command = "server" => (cli.result.code = 0 <=> cli.result.started)
        /\ cli.command = "test" /\ cli.world.requests /\ cli.world.reachable = "raise"
           => cli.result.code = 1

\* C11: `server` returned 0 although register_trackio_tools gave no interface
\* and no server was started.
C11_Witness ==
    /\ cli.command = "server"
    /\ cli.world.interface = "None"
    /\ cli.result.kind = "return"
    /\ cli.result.code = 0
    /\ ~cli.result.started

\* C12: a call of patch_trackio while gradio cannot be imported returns
\* normally and leaves Blocks as it was; and an import of the package that got
\* as far as calling patch_trackio completes, whatever patch_trackio raised,
\* with trackio_mcp and its names in place.
C12_ActivationNeverFatal ==
    \A t \in Threads :
        /\ Finished(t, "patch_trackio") /\ "gradio" \notin installed
           => /\ exc[t] = NoExc
              /\ Blocks_launch = hist[t].before.Blocks_launch
              /\ Blocks_original_launch = hist[t].before.Blocks_original_launch
        /\ Finished(t, "import trackio_mcp") /\ hist[t].entry # "none"
           => /\ exc[t] = NoExc
              /\ "trackio_mcp" \in sys_modules

\* C12: the import of the package is over, and patch_trackio had raised
\* RecursionError into the entry point.
C12_Witness ==
    \E t \in Threads :
        /\ Finished(t, "import trackio_mcp")
        /\ hist[t].entry = "RecursionError"
        /\ exc[t] = NoExc
        /\ "trackio_mcp" \in sys_modules

\* C13, as stated: every result is a success envelope, with success true and
\* no error field, or an error envelope whose fields are success (false) and
\* error, and no others.
C13_TwoShapes ==
    query.fn # "none" /\ query.result.kind = "return" =>
        LET e == query.result.envelope
        IN  /\ "success" \in e.keys
            /\ IF e.success
               THEN "error" \notin e.keys
               ELSE e.keys = {"success", "error"}

\* C13, amended: every result has the field success; with success true it has
\* no error field and no traceback; with success false it has the field error
\* and, exactly when it reports an exception caught in the function, a third
\* field traceback, and no others.
C13_EnvelopeShapes ==
    query.fn # "none" =>
        LET e == query.result.envelope
        IN  /\ query.result.kind = "return"
            /\ "success" \in e.keys
            /\ IF e.success
               THEN /\ e.keys \cap {"error", "traceback"} = {}
                    /\ e.error = ""
                    /\ query.result.raised = ""
               ELSE e.keys = IF query.result.raised # ""
                             THEN {"success", "error", "traceback"}
                             ELSE {"success", "error"}

\* C13: get_runs reports an exception of the storage: its envelope has the
\* three fields success, error and traceback.
C13_Witness ==
    /\ query.fn = "get_runs"
    /\ query.result.raised = "database is locked"
    /\ query.result.envelope.keys = {"success", "error", "traceback"}

\* The mcp_server value in effect in the call of t: the caller's, or True.
C14_Effective(t) ==
    IF hist[t].caller.kwargs["mcp_server"] = Absent
    THEN "True"
    ELSE hist[t].caller.kwargs["mcp_server"]

\* The caller of t asked for quiet output.
C14_Quiet(t) == hist[t].caller.kwargs["quiet"] = "True"

\* The two lines, for the base URL of the model's instances.
C14_Urls ==
    << <<"MCP Server: ", "http://127.0.0.1:7860", "/gradio_api/mcp/sse">>,
       <<"MCP Schema: ", "http://127.0.0.1:7860", "/gradio_api/mcp/schema">> >>

\* What C14 says of the marker and of the order, in a call of the patched
\* launch that is over: the genuine launch was called once; when it was called
\* TRACKIO_MCP_ENABLED was "true" if the effective mcp_server is truthy and was
\* what it had been before the call otherwise; and lines were printed only
\* when the genuine launch had returned, and they were the two URLs.
C14_MarkerThenDelegate(t) ==
    /\ Len(hist[t].calls) = 1
    /\ hist[t].marker[1] = IF C14_Effective(t) = "True"
                           THEN "true"
                           ELSE hist[t].before.TRACKIO_MCP_ENABLED
    /\ env_TRACKIO_MCP_ENABLED = hist[t].marker[1]
    /\ hist[t].printed # <<>> => hist[t].original = "ok" /\ hist[t].printed = C14_Urls

\* C14, as stated: marker before delegation as above, and the URLs are
\* printed exactly when the genuine launch returned, the effective mcp_server
\* is truthy and the caller did not ask for quiet.
C14_UrlsExactlyWhenEnabled ==
    \A t \in Threads :
        PatchedLaunchOver(t) =>
            /\ C14_MarkerThenDelegate(t)
            /\ hist[t].printed # <<>>
               <=> /\ hist[t].original = "ok"
                   /\ C14_Effective(t) = "True"
                   /\ ~C14_Quiet(t)

\* C14, amended: the URLs are printed exactly when, besides, the instance has
\* a local_url that is not empty once the genuine launch has returned.
C14_UrlsWhenEnabledAndServed ==
    \A t \in Threads :
        PatchedLaunchOver(t) =>
            /\ C14_MarkerThenDelegate(t)
            /\ hist[t].printed # <<>>
               <=> /\ hist[t].original = "ok"
                   /\ C14_Effective(t) = "True"
                   /\ ~C14_Quiet(t)
                   /\ local_url[t].has
                   /\ local_url[t].value # <<>>

\* C14: a call with mcp_server defaulted and quiet=False printed the two
\* URLs, the local_url ending in "/"; the marker was unset before the call.
C14_Witness ==
    \E t \in Threads :
        /\ PatchedLaunchOver(t)
        /\ hist[t].caller.kwargs["mcp_server"] = Absent
        /\ hist[t].caller.kwargs["quiet"] = "False"
        /\ hist[t].before.TRACKIO_MCP_ENABLED = Unset
        /\ local_url[t].value = <<"http://127.0.0.1:7860", "/">>
        /\ hist[t].printed = C14_Urls

\* C15: in a load request made through the installed hook, a hook frame
\* enters the gradio patch only for the name "gradio" or a name that starts
\* with "gradio." with gradio loaded, and only once the original primitive has
\* returned; a request for any other name leaves Blocks.launch,
\* Blocks._original_launch, _gradio_patched and TRACKIO_MCP_ENABLED as they
\* were; and when the original primitive raised, no patch was attempted.
C15_PatchOnlyForGradio ==
    \A t \in Threads :
        Finished(t, "import") /\ hist[t].before.builtins_import = "hook" =>
            /\ hist[t].tried \subseteq {"gradio", "gradio.blocks"}
            /\ "gradio.blocks" \in hist[t].tried => "gradio" \in sys_modules
            /\ hist[t].tried # {} \/ hist[t].attempted => hist[t].original = "ok"
            /\ hist[t].name \notin {"gradio", "gradio.blocks"}
               => /\ hist[t].tried = {}
                  /\ ~hist[t].attempted
                  /\ Blocks_launch = hist[t].before.Blocks_launch
                  /\ Blocks_original_launch = hist[t].before.Blocks_original_launch
                  /\ _gradio_patched = hist[t].before._gradio_patched
                  /\ env_TRACKIO_MCP_ENABLED = hist[t].before.TRACKIO_MCP_ENABLED

\* C15: a request for trackio.ui went through the installed hook, the
\* original primitive returned the module, and the request is over.
C15_Witness ==
    \E t \in Threads :
        /\ Finished(t, "import")
        /\ hist[t].before.builtins_import = "hook"
        /\ hist[t].name = "trackio.ui"
        /\ hist[t].original = "ok"
        /\ hist[t].tried = {}

\* C16: a load request handled by the installed hook terminates with what the
\* original primitive gave: the nested loads of the hook never use up the
\* interpreter's stack, and a request whose original primitive returned the
\* module returns.
C16_HookTerminates ==
    \A t \in Threads :
        /\ exc[t] # "RecursionError"
        /\ Finished(t, "import")
              /\ hist[t].before.builtins_import = "hook"
              /\ hist[t].original = "ok"
           => exc[t] = NoExc

\* C16: a request for gradio through the installed hook is over; the original
\* primitive had returned the module, and the requester got RecursionError.
C16_Witness ==
    \E t \in Threads :
        /\ Finished(t, "import")
        /\ hist[t].name = "gradio"
        /\ hist[t].before.builtins_import = "hook"
        /\ hist[t].original = "ok"
        /\ exc[t] = "RecursionError"

\* C17: whatever the interleaving of the threads, the saved _original_import
\* is never a hook, and the active primitive is the real one or one hook that
\* delegates to the real one.
C17_SavedOriginalNeverHook ==
    /\ _original_import # "hook"
    /\ builtins_import = "hook" /\ (\A t \in Threads : Idle(t))
       => _original_import = "real"

\* C17: both threads were in _install_import_hook together, and the hook now
\* delegates to a hook.
C17_Witness ==
    /\ \A t \in Threads : Finished(t, "_install_import_hook")
    /\ builtins_import = "hook"
    /\ _original_import = "hook"

\* C18: whatever restore_imports does meanwhile, a hook frame that delegates
\* finds an original primitive to call: no frame of patched_import is about to
\* call _original_import while it is None, and none got the TypeError of
\* calling None.
C18_HookDelegatesToPrimitive ==
    \A t \in Threads :
        /\ Running(t, "patched_import", "call_original") => _original_import # "None"
        /\ exc[t] # "TypeError"

\* C18: a load request entered the hook, restore_imports of the other thread
\* put the real primitive back and cleared _original_import, and the request
\* ended in TypeError.
C18_Witness ==
    \E t \in Threads :
        /\ Finished(t, "import")
        /\ exc[t] = "TypeError"
        /\ _original_import = "None"
        /\ builtins_import = "real"

====
